---------------------------- MODULE Spec2Model ----------------------------
(***************************************************************************)
(* Model of SceneExtractor.py: the frame sampling loop and the similarity  *)
(* loop of calculate_similarities_parallel, and the dual-threshold         *)
(* selection of detect_scene_changes.                                      *)
(*                                                                         *)
(* Units.  Timestamps are integers counting ticks of 1/TicksPerSec second. *)
(* Similarity scores are integers counting 1/Scale.  alpha is an integer   *)
(* counting 1/AlphaDen.  mean, std and threshold are kept exact: the       *)
(* threshold is the record [A, B, D, C] standing for the real number       *)
(* (A - B * sqrt(D)) / C, and comparisons with it are decided by squaring. *)
(* The percentile is kept in 1/(100 * Scale), the denominator of numpy's   *)
(* linear interpolation at an integer rank.                                *)
(***************************************************************************)
EXTENDS Integers, Sequences, FiniteSets

\* ------------------------------------------------------------- bounds
TicksPerSec == 2
MaxTick     == 5
MaxFrames   == 3
MaxSims     == 4
AlphaDen    == 2

\* ---------------------------------------------------------- constants
Scale == 100

\* similarity values offered to the segmenter when it is applied to a given
\* similarity sequence (SpecSeg); they include the end-to-end scenario's
SimValues == {10, 92, 93, 95}

\* embeddings the external embedding function may return (flattened)
ZeroEmbedding == <<0, 0>>
Embeddings == {ZeroEmbedding, <<1, 0>>, <<0, 1>>, <<3, 4>>}

\* the lowest timestamp the capture may report (-1.0 second)
FirstTick == -TicksPerSec

\* alpha = -1, 0, 1, 1 + 1/AlphaDen
Alphas == {-AlphaDen, 0, AlphaDen, AlphaDen + 1}
\* frame_per_minute; -1 and 61 give the ranks -2 and 102
FramesPerMinute == {-1, 0, 24, 60, 61}

VARIABLES
    pc,                        \* position in detect_scene_changes
    nread,                     \* frames the capture has delivered
    cap_ts,                    \* the capture's position (timestamp of the last frame)
    last_processed_timestamp,
    features_dict,             \* int(timestamp) -> embedding
    sampled,                   \* history: timestamps handed to process_frame
    similarities,              \* sequence of <<frame_number, sim>>
    alpha,
    frame_per_minute,
    threshold,
    percentile,
    i,                         \* index of the selection loop
    scene_changes,
    mean_hits,                 \* history: timestamps appended by the `sim <= threshold` branch
    outcome                    \* "running", "returned", "AssertionError", "ValueError"

vars == <<pc, nread, cap_ts, last_processed_timestamp, features_dict, sampled,
          similarities, alpha, frame_per_minute, threshold, percentile, i,
          scene_changes, mean_hits, outcome>>

\* ------------------------------------------------------------ helpers
Min(a, b) == IF a <= b THEN a ELSE b

SetMin(S) == CHOOSE x \in S : \A y \in S : x <= y

RECURSIVE SortedKeys(_)
SortedKeys(S) ==
    IF S = {} THEN << >>
    ELSE <<SetMin(S)>> \o SortedKeys(S \ {SetMin(S)})

RECURSIVE Insert(_, _)
Insert(x, s) ==
    IF s = << >> THEN <<x>>
    ELSE IF x <= Head(s) THEN <<x>> \o s
    ELSE <<Head(s)>> \o Insert(x, Tail(s))

RECURSIVE Sorted(_)
Sorted(s) == IF s = << >> THEN << >> ELSE Insert(Head(s), Sorted(Tail(s)))

RECURSIVE Sum(_)
Sum(s) == IF s = << >> THEN 0 ELSE Head(s) + Sum(Tail(s))

RECURSIVE SumSq(_)
SumSq(s) == IF s = << >> THEN 0 ELSE Head(s) * Head(s) + SumSq(Tail(s))

\* the integer square root
ISqrt(n) == CHOOSE k \in 0..n : k * k <= n /\ (k + 1) * (k + 1) > n

\* Python's round(): to the nearest integer, ties to the even one
RoundHalfEven(num, den) ==
    LET q == num \div den
        r == num % den
    IN  IF 2 * r < den THEN q
        ELSE IF 2 * r > den THEN q + 1
        ELSE IF q % 2 = 0 THEN q ELSE q + 1

\* p + q * sqrt(D) <= 0, for integers p, q and D >= 0
SurdLeqZero(p, q, D) ==
    IF q = 0 THEN p <= 0
    ELSE IF q > 0 THEN p <= 0 /\ q * q * D <= p * p
    ELSE p <= 0 \/ p * p <= q * q * D


\* ------------------------------------------------- the sampling loop
\* line 63: last_processed_timestamp = -1.0
InitialLastProcessed == -TicksPerSec

\* line 72: the literal 1.0 (seconds)
SamplingInterval == TicksPerSec

\* lines 71-73: timestamp - last_processed_timestamp >= 1.0
ShouldSample_OffByOne(timestamp, last) == timestamp - last >= SamplingInterval - 1

ShouldSample(timestamp, last) == timestamp - last >= SamplingInterval

\* line 76: int(timestamp), truncation toward zero
FrameKey_Rounded(timestamp) == RoundHalfEven(timestamp, TicksPerSec)

FrameKey(timestamp) ==
    IF timestamp >= 0 THEN timestamp \div TicksPerSec
    ELSE -((-timestamp) \div TicksPerSec)

\* line 76: features_dict[int(timestamp)] = features
DictPut(d, k, v) == [x \in DOMAIN d \cup {k} |-> IF x = k THEN v ELSE d[x]]

\* lines 65-77: one iteration of the loop with a frame read.  The capture
\* delivers frames in non-decreasing timestamp order; the frame is
\* represented by the embedding extract_features computes from it.
ReadFrame(timestamp, features) ==
    /\ pc = "read"
    /\ nread < MaxFrames
    /\ timestamp >= cap_ts
    /\ nread' = nread + 1
    /\ cap_ts' = timestamp
    /\ IF ShouldSample(timestamp, last_processed_timestamp)
       THEN /\ features_dict' = DictPut(features_dict, FrameKey(timestamp), features)
            /\ last_processed_timestamp' = timestamp
            /\ sampled' = Append(sampled, timestamp)
       ELSE UNCHANGED <<features_dict, last_processed_timestamp, sampled>>
    /\ UNCHANGED <<pc, similarities, alpha, frame_per_minute, threshold,
                   percentile, i, scene_changes, mean_hits, outcome>>

\* lines 66-68: cap.read() reports the end of the stream
EndOfStream ==
    /\ pc = "read"
    /\ pc' = "sims"
    /\ UNCHANGED <<nread, cap_ts, last_processed_timestamp, features_dict,
                   sampled, similarities, alpha, frame_per_minute, threshold,
                   percentile, i, scene_changes, mean_hits, outcome>>

\* ----------------------------------------------- the similarity loop
Dot(a, b) == a[1] * b[1] + a[2] * b[2]

Norm(a) == ISqrt(Dot(a, a))

\* lines 92-97: F.cosine_similarity(features, last_features, dim=0).item().
\* torch clamps the denominator from below by eps = 1e-8, so a zero-norm
\* operand gives 0 / eps = 0 and no error.
CosineSimilarity(a, b) ==
    IF Norm(a) * Norm(b) = 0 THEN 0
    ELSE (Scale * Dot(a, b)) \div (Norm(a) * Norm(b))

\* lines 82-98: for frame_number, features in sorted(features_dict.items())
SimilaritiesOf(d) ==
    LET keys == SortedKeys(DOMAIN d)
    IN  [j \in 1..(Len(keys) - 1) |->
            <<keys[j + 1], CosineSimilarity(d[keys[j + 1]], d[keys[j]])>>]

ComputeSimilarities ==
    /\ pc = "sims"
    /\ similarities' = SimilaritiesOf(features_dict)
    /\ pc' = "assert"
    /\ UNCHANGED <<nread, cap_ts, last_processed_timestamp, features_dict,
                   sampled, alpha, frame_per_minute, threshold, percentile, i,
                   scene_changes, mean_hits, outcome>>

\* ------------------------------------------------------ the segmenter
\* line 133: assert similarities
NonEmpty_Always(s) == TRUE

NonEmpty(s) == s # << >>

AssertSimilarities ==
    /\ pc = "assert"
    /\ IF NonEmpty(similarities)
       THEN pc' = "stats" /\ UNCHANGED outcome
       ELSE pc' = "done" /\ outcome' = "AssertionError"
    /\ UNCHANGED <<nread, cap_ts, last_processed_timestamp, features_dict,
                   sampled, similarities, alpha, frame_per_minute, threshold,
                   percentile, i, scene_changes, mean_hits>>

\* line 135: similarity_scores = [sim for _, sim in similarities]
Scores(sims) == [j \in 1..Len(sims) |-> sims[j][2]]

Timestamps(sims) == [j \in 1..Len(sims) |-> sims[j][1]]

\* line 139: np.std, squared and multiplied by n * n
Deviation(scores) == Len(scores) * SumSq(scores) - Sum(scores) * Sum(scores)

\* lines 138-140: threshold = mean_sim - alpha * std_sim, as (A - B * sqrt(D)) / C
Threshold_Plus(scores, a) ==
    [A |-> AlphaDen * Sum(scores), B |-> -a, D |-> Deviation(scores),
     C |-> AlphaDen * Len(scores)]

Threshold(scores, a) ==
    [A |-> AlphaDen * Sum(scores), B |-> a, D |-> Deviation(scores),
     C |-> AlphaDen * Len(scores)]

\* xn / xd <= thr, xd > 0
LeqThresholdQ(xn, xd, thr) ==
    SurdLeqZero(xn * thr.C - xd * thr.A, xd * thr.B, thr.D)

\* line 148: sim <= threshold
LeqThreshold_Strict(sim, thr) ==
    ~ SurdLeqZero(thr.A - sim * thr.C, -thr.B, thr.D)

LeqThreshold(sim, thr) == LeqThresholdQ(sim, 1, thr)

\* line 143: round(1 / 60 * 100 * frame_per_minute)
PercentileRank(fpm) == RoundHalfEven(100 * fpm, 60)

\* np.percentile rejects a rank outside [0, 100] with a ValueError
RankInRange_NoUpper(rank) == rank >= 0

RankInRange(rank) == rank >= 0 /\ rank <= 100

SortedScores_Unsorted(scores) == scores

SortedScores(scores) == Sorted(scores)

\* lines 142-144: np.percentile(similarity_scores, rank), linear
\* interpolation between the order statistics around rank / 100 * (n - 1),
\* indices clipped to the array; the result is in 1 / (100 * Scale)
Percentile(scores, rank) ==
    LET s    == SortedScores(scores)
        n    == Len(s)
        pos  == rank * (n - 1)
        lo   == IF pos < 0 THEN 0 ELSE Min(pos \div 100, n - 1)
        hi   == Min(lo + 1, n - 1)
        frac == IF pos < 0 \/ pos \div 100 > n - 1 THEN 0 ELSE pos % 100
    IN  100 * s[lo + 1] + frac * (s[hi + 1] - s[lo + 1])

\* line 151: sim <= percentile
LeqPercentile(sim, pct) == 100 * sim <= pct

\* lines 135-146
ComputeThresholds ==
    /\ pc = "stats"
    /\ threshold' = Threshold(Scores(similarities), alpha)
    /\ IF RankInRange(PercentileRank(frame_per_minute))
       THEN /\ percentile' = Percentile(Scores(similarities),
                                        PercentileRank(frame_per_minute))
            /\ pc' = "select"
            /\ UNCHANGED outcome
       ELSE /\ pc' = "done"
            /\ outcome' = "ValueError"
            /\ UNCHANGED percentile
    /\ UNCHANGED <<nread, cap_ts, last_processed_timestamp, features_dict,
                   sampled, similarities, alpha, frame_per_minute, i,
                   scene_changes, mean_hits>>

\* lines 148-153: the body of the selection loop
SceneChangeStep_BothIfs(changes, pair, thr, pct) ==
    LET first == IF LeqThreshold(pair[2], thr) THEN Append(changes, pair[1]) ELSE changes
    IN  IF LeqPercentile(pair[2], pct) THEN Append(first, pair[1]) ELSE first

SceneChangeStep_NoElif(changes, pair, thr, pct) ==
    IF LeqThreshold(pair[2], thr) THEN Append(changes, pair[1]) ELSE changes

SceneChangeStep(changes, pair, thr, pct) ==
    IF LeqThreshold(pair[2], thr) THEN Append(changes, pair[1])
    ELSE IF LeqPercentile(pair[2], pct) THEN Append(changes, pair[1])
    ELSE changes

\* lines 147-153: one iteration
SelectStep ==
    /\ pc = "select"
    /\ i <= Len(similarities)
    /\ scene_changes' = SceneChangeStep(scene_changes, similarities[i],
                                        threshold, percentile)
    /\ mean_hits' = IF LeqThreshold(similarities[i][2], threshold)
                    THEN mean_hits \cup {similarities[i][1]}
                    ELSE mean_hits
    /\ i' = i + 1
    /\ UNCHANGED <<pc, nread, cap_ts, last_processed_timestamp, features_dict,
                   sampled, similarities, alpha, frame_per_minute, threshold,
                   percentile, outcome>>

\* line 154: return scene_changes
Return ==
    /\ pc = "select"
    /\ i > Len(similarities)
    /\ pc' = "done"
    /\ outcome' = "returned"
    /\ UNCHANGED <<nread, cap_ts, last_processed_timestamp, features_dict,
                   sampled, similarities, alpha, frame_per_minute, threshold,
                   percentile, i, scene_changes, mean_hits>>

\* ---------------------------------------------------- specifications
NoThreshold == [A |-> 0, B |-> 0, D |-> 0, C |-> 1]

\* detect_scene_changes(video_path, alpha, frame_per_minute) has passed its
\* argument assertions (lines 122-126) and opened the capture (lines 59-63)
Init ==
    /\ pc = "read"
    /\ nread = 0
    /\ cap_ts = FirstTick
    /\ last_processed_timestamp = InitialLastProcessed
    /\ features_dict = << >>
    /\ sampled = << >>
    /\ similarities = << >>
    /\ alpha \in Alphas
    /\ frame_per_minute \in FramesPerMinute
    /\ threshold = NoThreshold
    /\ percentile = 0
    /\ i = 1
    /\ scene_changes = << >>
    /\ mean_hits = {}
    /\ outcome = "running"

Next ==
    \/ \E timestamp \in FirstTick..MaxTick, features \in Embeddings :
          ReadFrame(timestamp, features)
    \/ EndOfStream
    \/ ComputeSimilarities
    \/ AssertSimilarities
    \/ ComputeThresholds
    \/ SelectStep
    \/ Return

Spec == Init /\ [][Next]_vars

\* The segmenter (lines 133-154) applied to a given similarity sequence, as
\* calculate_similarities_parallel returns it: integer timestamps, strictly
\* increasing.
GivenSimilarities ==
    UNION {{[j \in 1..n |-> <<j, f[j]>>] : f \in [1..n -> SimValues]} : n \in 0..MaxSims}

InitSeg ==
    /\ pc = "assert"
    /\ nread = 0
    /\ cap_ts = FirstTick
    /\ last_processed_timestamp = InitialLastProcessed
    /\ features_dict = << >>
    /\ sampled = << >>
    /\ similarities \in GivenSimilarities
    /\ alpha \in Alphas
    /\ frame_per_minute \in FramesPerMinute
    /\ threshold = NoThreshold
    /\ percentile = 0
    /\ i = 1
    /\ scene_changes = << >>
    /\ mean_hits = {}
    /\ outcome = "running"

NextSeg ==
    \/ AssertSimilarities
    \/ ComputeThresholds
    \/ SelectStep
    \/ Return

SpecSeg == InitSeg /\ [][NextSeg]_vars


\* ------------------------------------------------------------- claims
AfterSampling == pc \in {"sims", "assert", "stats", "select", "done"}

AfterSimilarities == pc \in {"assert", "stats", "select", "done"}

\* C1: consecutive sampled frames are at least 1.0 second apart, and the
\* first sampled frame is at least 1.0 second after the initial
\* last_processed_timestamp of -1.0.
C1_SamplingSpacing ==
    /\ \A j \in 2..Len(sampled) : sampled[j] - sampled[j - 1] >= TicksPerSec
    /\ Len(sampled) >= 1 => sampled[1] - (-TicksPerSec) >= TicksPerSec
    /\ Len(sampled) <= nread

\* three frames sampled at sub-second positions, with frames skipped between
C1_Witness ==
    /\ Len(sampled) >= 2
    /\ nread > Len(sampled)
    /\ cap_ts > last_processed_timestamp
    /\ sampled[1] % TicksPerSec # 0

\* C2: N >= 1 sampled frames give exactly N - 1 similarity entries, keyed by
\* the truncated timestamps of the 2nd..Nth sampled frames, strictly
\* increasing; no sampled frame is lost to a key collision.
C2_SequenceAlignment ==
    AfterSimilarities /\ Len(sampled) >= 1 =>
        /\ Len(similarities) = Len(sampled) - 1
        /\ \A j \in 1..Len(similarities) :
              similarities[j][1] * TicksPerSec <= sampled[j + 1]
              /\ sampled[j + 1] < (similarities[j][1] + 1) * TicksPerSec
        /\ \A j \in 2..Len(similarities) :
              similarities[j - 1][1] < similarities[j][1]

C2_Witness ==
    /\ AfterSimilarities
    /\ Len(sampled) = 3
    /\ Len(similarities) = 2
    /\ \A j \in 1..3 : sampled[j] % TicksPerSec # 0

\* C3: an empty similarity sequence ends detect_scene_changes in an
\* AssertionError; nothing is computed from it and no list is returned.
C3_EmptyIsError ==
    /\ pc \in {"stats", "select", "done"} /\ Len(sampled) <= 1 =>
          pc = "done" /\ outcome = "AssertionError" /\ scene_changes = << >>
    /\ pc \in {"stats", "select", "done"} /\ similarities = << >> =>
          pc = "done" /\ outcome = "AssertionError" /\ scene_changes = << >>
    /\ outcome = "returned" => similarities # << >>

\* one frame sampled of several read, and the call has ended in the error
C3_Witness ==
    /\ pc = "done"
    /\ outcome = "AssertionError"
    /\ Len(sampled) = 1
    /\ nread >= 2

\* a source with no frame at all
C3_WitnessNoFrames ==
    pc = "done" /\ outcome = "AssertionError" /\ nread = 0

\* consecutive sampled frames one of which has a zero-norm embedding
DegeneratePairs ==
    LET keys == SortedKeys(DOMAIN features_dict)
    IN  {j \in 2..Len(keys) :
            Norm(features_dict[keys[j]]) = 0 \/ Norm(features_dict[keys[j - 1]]) = 0}

\* C4: a zero-norm embedding in a pair of consecutive sampled frames ends the
\* similarity computation in an error: no similarity is emitted for the pair
\* and nothing is returned.
C4_DegenerateFailsLoudly ==
    AfterSimilarities /\ DegeneratePairs # {} =>
        /\ outcome # "returned"
        /\ pc \in {"assert", "done"}
        /\ LET keys == SortedKeys(DOMAIN features_dict)
           IN  \A j \in DegeneratePairs :
                   \A k \in 1..Len(similarities) : similarities[k][1] # keys[j]

RankOutOfRange ==
    \/ 100 * frame_per_minute > 60 * 100 + 30
    \/ 100 * frame_per_minute < -30

\* C5 as claimed: with a rank outside [0, 100] and a non-empty similarity
\* sequence, detect_scene_changes completes normally (the rank is clamped).
C5_ClampedNotCrash ==
    pc = "done" /\ similarities # << >> /\ RankOutOfRange => outcome = "returned"

\* C5 as amended: with a rank outside [0, 100] and a non-empty similarity
\* sequence, detect_scene_changes ends in the percentile function's
\* ValueError and returns nothing.
C5_OutOfRangeRaises ==
    pc \in {"select", "done"} /\ similarities # << >> /\ RankOutOfRange =>
        pc = "done" /\ outcome = "ValueError" /\ scene_changes = << >>

C5_Witness ==
    /\ pc = "done"
    /\ Len(similarities) >= 2
    /\ frame_per_minute > 60
    /\ outcome = "ValueError"

\* the pairs of the input that satisfy either condition, in input order
RECURSIVE SelectedOf(_, _, _)
SelectedOf(sims, thr, pct) ==
    IF sims = << >> THEN << >>
    ELSE LET rest == SelectedOf(Tail(sims), thr, pct)
             sim  == Head(sims)[2]
         IN  IF SurdLeqZero(sim * thr.C - thr.A, thr.B, thr.D) \/ 100 * sim <= pct
             THEN <<Head(sims)[1]>> \o rest
             ELSE rest

\* C6: the returned list holds, in input order and once each, exactly the
\* timestamps of the pairs whose similarity is <= mean - alpha * std or <=
\* the percentile value.
C6_SelectionRule ==
    outcome = "returned" =>
        scene_changes =
            SelectedOf(similarities,
                       [A |-> AlphaDen * Sum(Scores(similarities)),
                        B |-> alpha,
                        D |-> Deviation(Scores(similarities)),
                        C |-> AlphaDen * Len(similarities)],
                       Percentile(Scores(similarities), PercentileRank(frame_per_minute)))

\* a run in which one pair satisfies both conditions, one only the
\* percentile's, one only the threshold's, and one neither
C6_Witness ==
    /\ outcome = "returned"
    /\ \E j \in 1..Len(similarities) :
          LeqThreshold(similarities[j][2], threshold)
          /\ LeqPercentile(similarities[j][2], percentile)
    /\ \E j \in 1..Len(similarities) :
          LeqThreshold(similarities[j][2], threshold)
          /\ ~ LeqPercentile(similarities[j][2], percentile)
    /\ \E j \in 1..Len(similarities) :
          ~ LeqThreshold(similarities[j][2], threshold)
          /\ ~ LeqPercentile(similarities[j][2], percentile)

C6_WitnessPercentileOnly ==
    /\ outcome = "returned"
    /\ \E j \in 1..Len(similarities) :
          ~ LeqThreshold(similarities[j][2], threshold)
          /\ LeqPercentile(similarities[j][2], percentile)
    /\ \E j \in 1..Len(similarities) :
          ~ LeqPercentile(similarities[j][2], percentile)

\* thr2 <= thr1, for thresholds of the same similarity sequence
ThresholdLeq(thr2, thr1) ==
    SurdLeqZero(thr1.C * thr2.A - thr2.C * thr1.A,
                thr2.C * thr1.B - thr1.C * thr2.B, thr1.D)

\* timestamps the condition sim <= threshold selects at alpha = a
MeanSelected(sims, a) ==
    {sims[j][1] : j \in {k \in 1..Len(sims) :
                            LeqThreshold(sims[k][2], Threshold(Scores(sims), a))}}

\* C7: for alpha1 <= alpha2 the threshold at alpha2 is <= the threshold at
\* alpha1, and the timestamps selected by sim <= threshold at alpha2 are
\* among those selected at alpha1.
C7_ThresholdMonotone ==
    pc = "stats" =>
        \A a1 \in Alphas, a2 \in Alphas :
            a1 <= a2 =>
                /\ ThresholdLeq(Threshold(Scores(similarities), a2),
                                Threshold(Scores(similarities), a1))
                /\ MeanSelected(similarities, a2) \subseteq MeanSelected(similarities, a1)

\* a sequence on which raising alpha strictly shrinks the selection
C7_Witness ==
    /\ pc = "stats"
    /\ \E a1 \in Alphas, a2 \in Alphas :
          /\ a1 < a2
          /\ MeanSelected(similarities, a2) # MeanSelected(similarities, a1)
          /\ MeanSelected(similarities, a2) # {}
          /\ ~ ThresholdLeq(Threshold(Scores(similarities), a1),
                            Threshold(Scores(similarities), a2))

Scenario ==
    /\ similarities = <<<<1, 95>>, <<2, 10>>, <<3, 92>>, <<4, 93>>>>
    /\ alpha = AlphaDen
    /\ frame_per_minute = 0

\* |mean - m / 1000| <= 0.0005
MeanApprox(scores, m) ==
    LET d == 1000 * Sum(scores) - m * Len(scores) * Scale
    IN  2 * d <= Len(scores) * Scale /\ -2 * d <= Len(scores) * Scale

\* |std - m / 1000| <= 0.0005
StdApprox(scores, m) ==
    LET u == 2000 \div Scale
    IN  /\ ((2 * m - 1) * Len(scores)) * ((2 * m - 1) * Len(scores))
              <= u * u * Deviation(scores)
        /\ u * u * Deviation(scores)
              <= ((2 * m + 1) * Len(scores)) * ((2 * m + 1) * Len(scores))

\* |thr - m / 1000| <= 0.0005
ThresholdApprox(thr, m) ==
    LET u == 2000 \div Scale
    IN  /\ SurdLeqZero((2 * m - 1) * thr.C - u * thr.A, u * thr.B, thr.D)
        /\ ~ SurdLeqZero((2 * m + 1) * thr.C - u * thr.A, u * thr.B, thr.D)

\* C8 as claimed: the scenario gives mean 0.725, std 0.397, threshold 0.328,
\* percentile 0.10 and the result [2].
C8_ScenarioAsClaimed ==
    Scenario /\ pc = "done" =>
        /\ MeanApprox(Scores(similarities), 725)
        /\ StdApprox(Scores(similarities), 397)
        /\ ThresholdApprox(threshold, 328)
        /\ percentile = 100 * 10
        /\ outcome = "returned"
        /\ scene_changes = <<2>>

\* C8 as amended: the scenario gives mean 0.725, std 0.361, threshold 0.364,
\* percentile 0.10 and the result [2].
C8_Scenario ==
    Scenario /\ pc = "done" =>
        /\ MeanApprox(Scores(similarities), 725)
        /\ StdApprox(Scores(similarities), 361)
        /\ ThresholdApprox(threshold, 364)
        /\ percentile = 100 * 10
        /\ outcome = "returned"
        /\ scene_changes = <<2>>

C8_Witness == Scenario /\ pc = "done" /\ outcome = "returned"

\* every sampled frame has the same embedding, and there are two at least
IdenticalFrames ==
    /\ Len(sampled) >= 2
    /\ \A k1 \in DOMAIN features_dict, k2 \in DOMAIN features_dict :
          features_dict[k1] = features_dict[k2]

\* C9 as claimed: identical frames, alpha = 0 and frame_per_minute = 0: the
\* branch sim <= threshold selects no timestamp.
C9_IdenticalSelectsNone ==
    pc = "done" /\ outcome = "returned" /\ IdenticalFrames
    /\ alpha = 0 /\ frame_per_minute = 0 =>
        mean_hits = {}

\* C9 as amended: identical frames give one similarity value for every pair
\* (1.0 when the embedding's norm is not zero), and with alpha = 0 and
\* frame_per_minute = 0 the branch sim <= threshold selects every timestamp.
C9_IdenticalSelectsAll ==
    pc = "done" /\ IdenticalFrames /\ alpha = 0 /\ frame_per_minute = 0 =>
        /\ outcome = "returned"
        /\ \A j \in 1..Len(similarities) :
              similarities[j][2] = similarities[1][2]
              /\ (Norm(features_dict[similarities[j][1]]) # 0
                    => similarities[j][2] = Scale)
        /\ mean_hits = {similarities[j][1] : j \in 1..Len(similarities)}
        /\ scene_changes = Timestamps(similarities)

C9_Witness ==
    /\ pc = "done"
    /\ outcome = "returned"
    /\ IdenticalFrames
    /\ alpha = 0
    /\ frame_per_minute = 0
    /\ Len(similarities) = 2
    /\ similarities[1][2] = Scale

\* C10: a normal return never gives the empty list: the timestamp of every
\* pair of minimum similarity is in it.
C10_NeverEmpty ==
    outcome = "returned" =>
        /\ scene_changes # << >>
        /\ \A j \in 1..Len(similarities) :
              (\A k \in 1..Len(similarities) : similarities[j][2] <= similarities[k][2])
                  => \E m \in 1..Len(scene_changes) : scene_changes[m] = similarities[j][1]

\* a return in which the threshold lies below every score and the rank
\* interpolates between two order statistics
C10_Witness ==
    /\ outcome = "returned"
    /\ mean_hits = {}
    /\ frame_per_minute = 24
    /\ Len(similarities) >= 3
    /\ percentile % 100 # 0
    /\ Len(scene_changes) < Len(similarities)

==========================================================================
